---- MODULE Spec2Model ----
(***************************************************************************)
(* Model of orrery/observable.py: ObserverList (a WeakKeyDictionary from   *)
(* the observing object to CallbackArgs(WeakMethod, kwargs)) and           *)
(* Observable (a dict from Event to ObserverList, created lazily).         *)
(*                                                                         *)
(* Python objects are modelled by name.  An observing object ("owner") is  *)
(* alive until it is collected; it is collected only when nothing holds a  *)
(* strong reference to it.  A callback is a bound method: the pair of      *)
(* callback.__self__ (the owner) and callback.__func__ (a function         *)
(* object, which has a lifetime of its own, e.g. a function bound with     *)
(* types.MethodType or a class attribute that is later replaced).          *)
(* Owners use the default identity-based __eq__ and __hash__.              *)
(***************************************************************************)
EXTENDS Integers, Sequences, FiniteSets, TLC

\* The observing objects of the scenario, the functions their callbacks are
\* bound to, and the events the Observable is used with.
Owners == {"a", "b"}
Funcs == {"on_tick", "on_tock"}
Events == {"tick", "tock"}

\* on_tick is a method of the owners' class and lives as long as the class;
\* on_tock is a function bound to an owner ad hoc (types.MethodType), which
\* only its caller keeps alive.
Dynamic == {"on_tock"}

\* A callback_id that is not an observing object (e.g. an int: ref(key)
\* raises TypeError).
NotWeakrefable == "int"
Ids == Owners \cup {NotWeakrefable}

\* Keyword names used by callers of notify (**event_args) and of
\* add_observer (**kwargs), and the plain values they pass.
ArgKeys == {"count", "phase"}
KwKeys == {"phase"}
DataVals == {"1"}

\* Largest number of registrations held by the Observable at once.
MaxRegs == 2

\* The keyword dicts with keys in keys and values in vals.
KwMaps(keys, vals) == UNION {[D -> vals] : D \in SUBSET keys}

\* The owners a kwargs dict holds a strong reference to.
Refs(kwargs) == {kwargs[k] : k \in DOMAIN kwargs} \cap Owners

None == "None"
NoError == "none"
UnknownCallbackID == "RuntimeError: Unknown callback ID"
DuplicateKeyword == "TypeError: got multiple values for keyword argument"
NoneNotCallable == "TypeError: 'NoneType' object is not callable"
DictChangedSize == "RuntimeError: dictionary changed size during iteration"
CallbackException == "exception raised by the callback"

VARIABLES
    observer_lists, \* Observable._observer_lists: event -> ObserverList._observers,
                    \* each the sequence of (key, CallbackArgs) in dict order
    alive,          \* owner -> the object has not been collected
    held,           \* owner -> the caller holds a strong reference to it
    func_alive,     \* func -> the function object has not been collected
    last,           \* the last call of the Observable and its arguments
    calls,          \* the callback invocations of the last notify, in order
    error           \* the exception that escaped the last API call

vars == <<observer_lists, alive, held, func_alive, last, calls, error>>

\* ObserverList.__init__: an empty WeakKeyDictionary.
ObserverList == <<>>

\* Faulty variant of GetObserverLists: a new ObserverList is stored for the
\* event on every lookup, also when it already has one.
GetObserverListsFresh(lists, event) ==
    [e \in DOMAIN lists \cup {event} |->
        IF e = event THEN ObserverList ELSE lists[e]]

\* Observable._get_observer_list: the mapping after resolving event
\* (an empty ObserverList is created when the event is not yet a key).
GetObserverLists(lists, event) ==
    IF event \in DOMAIN lists
    THEN lists
    ELSE [e \in DOMAIN lists \cup {event} |->
            IF e = event THEN ObserverList ELSE lists[e]]

\* Position of key in the WeakKeyDictionary, 0 when ref(key) is not in it.
IndexOf(observers, key) ==
    IF \E i \in 1..Len(observers) : observers[i].key = key
    THEN CHOOSE i \in 1..Len(observers) : observers[i].key = key
    ELSE 0

\* Faulty variant of Contains: the membership test is left out, so an
\* unknown id is deleted like dict.pop(id, None).
ContainsAny(observers, key) == TRUE

\* WeakKeyDictionary.__contains__
Contains(observers, key) == key \in Owners /\ IndexOf(observers, key) # 0

\* CallbackArgs(callback=WeakMethod(callback), kwargs=kwargs)
CallbackArgs(owner, func, kwargs) ==
    [key |-> owner, callback |-> [obj |-> owner, func |-> func], kwargs |-> kwargs]

\* Faulty variant of SetItem: the registrations are keyed by the function of
\* the callback (callback.__func__) instead of its object.
SetItemByFunc(observers, owner, func, kwargs) ==
    LET item == CallbackArgs(owner, func, kwargs)
        same == {i \in 1..Len(observers) : observers[i].callback.func = func}
    IN IF same # {}
       THEN [observers EXCEPT ![CHOOSE i \in same : TRUE] = item]
       ELSE Append(observers, item)

\* Faulty variant of SetItem: the registrations are kept in a list and a new
\* one is appended without replacing the owner's previous one.
SetItemAppend(observers, owner, func, kwargs) ==
    Append(observers, CallbackArgs(owner, func, kwargs))

\* self._observers[callback_id] = CallbackArgs(...): a dict assignment
\* replaces the value of an existing key in place and appends a new key.
SetItem(observers, owner, func, kwargs) ==
    LET i == IndexOf(observers, owner)
        item == CallbackArgs(owner, func, kwargs)
    IN IF i # 0 THEN [observers EXCEPT ![i] = item] ELSE Append(observers, item)

\* Faulty variant of DelItem: the oldest registration is deleted, whatever
\* its key.
DelItemFirst(observers, key) ==
    IF observers = <<>> THEN observers ELSE Tail(observers)

\* del self._observers[callback_id]
DelItem(observers, key) == SelectSeq(observers, LAMBDA item : item.key # key)

\* Number of registrations in all observer lists.
RECURSIVE SumLen(_, _)
SumLen(lists, S) ==
    IF S = {} THEN 0
    ELSE LET e == CHOOSE x \in S : TRUE
         IN Len(lists[e]) + SumLen(lists, S \ {e})

TotalRegs(lists) == SumLen(lists, DOMAIN lists)

\* The value of last when the last step was no call of the Observable.
NoCall == [op |-> "none", event |-> None, id |-> None, func |-> None, kwargs |-> <<>>]

Init ==
    /\ observer_lists = [e \in {} |-> ObserverList]
    /\ alive = [o \in Owners |-> TRUE]
    /\ held = [o \in Owners |-> TRUE]
    /\ func_alive = [f \in Funcs |-> TRUE]
    /\ last = NoCall
    /\ calls = <<>>
    /\ error = NoError

\* Observable.add_observer(event, owner.func, **kwargs); the caller holds
\* the bound method it passes.
add_observer(event, owner, func, kwargs) ==
    /\ held[owner] /\ func_alive[func]
    /\ LET lists == GetObserverLists(observer_lists, event)
           observers == SetItem(lists[event], owner, func, kwargs)
       IN /\ TotalRegs(lists) - Len(lists[event]) + Len(observers) <= MaxRegs
          /\ observer_lists' = [lists EXCEPT ![event] = observers]
    /\ last' = [op |-> "add_observer", event |-> event, id |-> owner,
                func |-> func, kwargs |-> kwargs]
    /\ calls' = <<>>
    /\ error' = NoError
    /\ UNCHANGED <<alive, held, func_alive>>

\* Faulty variant of remove_observer: the id is deleted from the observer
\* list of every event.
remove_observer_everywhere(event, callback_id) ==
    /\ callback_id \in Owners => held[callback_id]
    /\ LET lists == GetObserverLists(observer_lists, event)
       IN IF ~Contains(lists[event], callback_id)
          THEN /\ error' = UnknownCallbackID
               /\ observer_lists' = lists
          ELSE /\ error' = NoError
               /\ observer_lists' =
                      [e \in DOMAIN lists |-> DelItem(lists[e], callback_id)]
    /\ last' = [op |-> "remove_observer", event |-> event, id |-> callback_id,
                func |-> None, kwargs |-> <<>>]
    /\ calls' = <<>>
    /\ UNCHANGED <<alive, held, func_alive>>

\* Faulty variant of remove_observer: an unknown id resets the observer list
\* of the event before the error is raised.
remove_observer_resetting(event, callback_id) ==
    /\ callback_id \in Owners => held[callback_id]
    /\ LET lists == GetObserverLists(observer_lists, event)
       IN IF ~Contains(lists[event], callback_id)
          THEN /\ error' = UnknownCallbackID
               /\ observer_lists' = [lists EXCEPT ![event] = ObserverList]
          ELSE /\ error' = NoError
               /\ observer_lists' =
                      [lists EXCEPT ![event] = DelItem(lists[event], callback_id)]
    /\ last' = [op |-> "remove_observer", event |-> event, id |-> callback_id,
                func |-> None, kwargs |-> <<>>]
    /\ calls' = <<>>
    /\ UNCHANGED <<alive, held, func_alive>>

\* Faulty variant of remove_observer: the observer list is looked up
\* without being created, so an event never used before raises KeyError.
remove_observer_known(event, callback_id) ==
    /\ callback_id \in Owners => held[callback_id]
    /\ IF event \notin DOMAIN observer_lists
       THEN /\ error' = "KeyError"
            /\ observer_lists' = observer_lists
       ELSE IF ~Contains(observer_lists[event], callback_id)
       THEN /\ error' = UnknownCallbackID
            /\ observer_lists' = observer_lists
       ELSE /\ error' = NoError
            /\ observer_lists' =
                   [observer_lists EXCEPT
                       ![event] = DelItem(observer_lists[event], callback_id)]
    /\ last' = [op |-> "remove_observer", event |-> event, id |-> callback_id,
                func |-> None, kwargs |-> <<>>]
    /\ calls' = <<>>
    /\ UNCHANGED <<alive, held, func_alive>>

\* Observable.remove_observer(event, callback_id).  A caller that passes an
\* observing object as callback_id holds a strong reference to it.
remove_observer(event, callback_id) ==
    /\ callback_id \in Owners => held[callback_id]
    /\ LET lists == GetObserverLists(observer_lists, event)
       IN IF ~Contains(lists[event], callback_id)
          THEN /\ error' = UnknownCallbackID
               /\ observer_lists' = lists
          ELSE /\ error' = NoError
               /\ observer_lists' =
                      [lists EXCEPT ![event] = DelItem(lists[event], callback_id)]
    /\ last' = [op |-> "remove_observer", event |-> event, id |-> callback_id,
                func |-> None, kwargs |-> <<>>]
    /\ calls' = <<>>
    /\ UNCHANGED <<alive, held, func_alive>>

\* WeakKeyDictionary.values(): the values whose key is still alive.
Values(observers) == SelectSeq(observers, LAMBDA item : alive[item.key])

\* WeakMethod.__call__ returns None, and not the bound method, when the
\* object or the function the method was bound to is gone.
Expired(weak_callback) ==
    ~(alive[weak_callback.obj] /\ func_alive[weak_callback.func])

\* {**event_args, **kwargs} of two dicts without a common key.
Merge(event_args, kwargs) ==
    [k \in DOMAIN event_args \cup DOMAIN kwargs |->
        IF k \in DOMAIN event_args THEN event_args[k] ELSE kwargs[k]]

\* Faulty variant of NotifyLoop: the exception of a callback is caught and
\* the loop goes on with the next observer.
RECURSIVE NotifyLoopIsolating(_, _, _, _, _)
NotifyLoopIsolating(values, i, event_args, raiser, done) ==
    IF i > Len(values)
    THEN [calls |-> done, error |-> NoError]
    ELSE LET callback_args == values[i]
             callback == callback_args.callback
         IN IF DOMAIN event_args \cap DOMAIN callback_args.kwargs # {}
            THEN [calls |-> done, error |-> DuplicateKeyword]
            ELSE IF Expired(callback)
            THEN [calls |-> done, error |-> NoneNotCallable]
            ELSE LET call == [obj |-> callback.obj, func |-> callback.func,
                              kwargs |-> Merge(event_args, callback_args.kwargs),
                              raised |-> callback.obj = raiser]
                 IN NotifyLoopIsolating(values, i + 1, event_args, raiser,
                                        Append(done, call))

\* Faulty variant of NotifyLoop: the two keyword dicts are merged into one
\* before the call, so a shared key is passed silently instead of raising.
RECURSIVE NotifyLoopMerging(_, _, _, _, _)
NotifyLoopMerging(values, i, event_args, raiser, done) ==
    IF i > Len(values)
    THEN [calls |-> done, error |-> NoError]
    ELSE LET callback_args == values[i]
             callback == callback_args.callback
         IN IF Expired(callback)
            THEN [calls |-> done, error |-> NoneNotCallable]
            ELSE LET call == [obj |-> callback.obj, func |-> callback.func,
                              kwargs |-> Merge(event_args, callback_args.kwargs),
                              raised |-> callback.obj = raiser]
                 IN IF call.raised
                    THEN [calls |-> Append(done, call), error |-> CallbackException]
                    ELSE NotifyLoopMerging(values, i + 1, event_args, raiser,
                                           Append(done, call))

\* The loop of ObserverList.notify from the i-th value on: the calls made
\* (each with the object and function called, the keywords passed and
\* whether the callback raised) and the exception that ends the loop, if
\* any.  raiser is the owner whose callback raises when it is invoked
\* (None: no callback raises).
RECURSIVE NotifyLoop(_, _, _, _, _)
NotifyLoop(values, i, event_args, raiser, done) ==
    IF i > Len(values)
    THEN [calls |-> done, error |-> NoError]
    ELSE LET callback_args == values[i]
             callback == callback_args.callback
         IN IF DOMAIN event_args \cap DOMAIN callback_args.kwargs # {}
            THEN [calls |-> done, error |-> DuplicateKeyword]
            ELSE IF Expired(callback)
            THEN [calls |-> done, error |-> NoneNotCallable]
            ELSE LET call == [obj |-> callback.obj, func |-> callback.func,
                              kwargs |-> Merge(event_args, callback_args.kwargs),
                              raised |-> callback.obj = raiser]
                 IN IF call.raised
                    THEN [calls |-> Append(done, call), error |-> CallbackException]
                    ELSE NotifyLoop(values, i + 1, event_args, raiser,
                                    Append(done, call))

\* Faulty variant of notify: the observer list is looked up without being
\* created, so an event never used before raises KeyError.
notify_known(event, event_args, raiser) ==
    /\ IF event \notin DOMAIN observer_lists
       THEN /\ observer_lists' = observer_lists
            /\ calls' = <<>>
            /\ error' = "KeyError"
       ELSE LET outcome == NotifyLoop(Values(observer_lists[event]), 1,
                                      event_args, raiser, <<>>)
            IN /\ observer_lists' = observer_lists
               /\ calls' = outcome.calls
               /\ error' = outcome.error
    /\ last' = [op |-> "notify", event |-> event, id |-> None,
                func |-> None, kwargs |-> event_args]
    /\ UNCHANGED <<alive, held, func_alive>>

\* Faulty variant of notify: the registrations whose weak callback
\* reference has expired are erased before the loop.
notify_pruning(event, event_args, raiser) ==
    /\ LET lists == GetObserverLists(observer_lists, event)
           kept == SelectSeq(lists[event],
                             LAMBDA item : ~Expired(item.callback))
           outcome == NotifyLoop(Values(kept), 1, event_args, raiser, <<>>)
       IN /\ observer_lists' = [lists EXCEPT ![event] = kept]
          /\ calls' = outcome.calls
          /\ error' = outcome.error
    /\ last' = [op |-> "notify", event |-> event, id |-> None,
                func |-> None, kwargs |-> event_args]
    /\ UNCHANGED <<alive, held, func_alive>>

\* Observable.notify(event, **event_args)
notify(event, event_args, raiser) ==
    /\ LET lists == GetObserverLists(observer_lists, event)
           outcome == NotifyLoop(Values(lists[event]), 1, event_args, raiser, <<>>)
       IN /\ observer_lists' = lists
          /\ calls' = outcome.calls
          /\ error' = outcome.error
    /\ last' = [op |-> "notify", event |-> event, id |-> None,
                func |-> None, kwargs |-> event_args]
    /\ UNCHANGED <<alive, held, func_alive>>

\* Faulty variant of NotifyLoopRemoving: the loop runs over a copy of the
\* values taken before the first call, so it goes on after the removal and
\* still calls what the copy holds.
RECURSIVE NotifyLoopSnapshot(_, _, _, _, _, _)
NotifyLoopSnapshot(observers, i, event_args, by, target, done) ==
    IF i > Len(Values(observers))
    THEN [calls |-> done, error |-> NoError, observers |-> observers]
    ELSE LET callback_args == Values(observers)[i]
             callback == callback_args.callback
         IN IF DOMAIN event_args \cap DOMAIN callback_args.kwargs # {}
            THEN [calls |-> done, error |-> DuplicateKeyword,
                  observers |-> observers]
            ELSE IF Expired(callback)
            THEN [calls |-> done, error |-> NoneNotCallable,
                  observers |-> observers]
            ELSE LET call == [obj |-> callback.obj, func |-> callback.func,
                              kwargs |-> Merge(event_args, callback_args.kwargs),
                              raised |-> callback.obj = by
                                         /\ ~Contains(observers, target)]
                 IN IF callback.obj # by
                    THEN NotifyLoopSnapshot(observers, i + 1, event_args, by,
                                            target, Append(done, call))
                    ELSE IF call.raised
                    THEN [calls |-> Append(done, call),
                          error |-> UnknownCallbackID, observers |-> observers]
                    ELSE LET rest == NotifyLoop(Values(observers), i + 1,
                                                event_args, None,
                                                Append(done, call))
                         IN [calls |-> rest.calls, error |-> rest.error,
                             observers |-> DelItem(observers, target)]

\* The loop of ObserverList.notify from the i-th value on, when the callback
\* of the object by calls remove_observer(event, target) on the observable
\* that is notifying it.  An unknown target makes that callback raise the
\* error of remove_observer, which ends the loop.  Otherwise the entry is
\* deleted from the dictionary that values() is iterating, the callback
\* returns, and the next step of the iteration raises RuntimeError.  The
\* result holds the calls, the error and the observers left.
RECURSIVE NotifyLoopRemoving(_, _, _, _, _, _)
NotifyLoopRemoving(observers, i, event_args, by, target, done) ==
    IF i > Len(Values(observers))
    THEN [calls |-> done, error |-> NoError, observers |-> observers]
    ELSE LET callback_args == Values(observers)[i]
             callback == callback_args.callback
         IN IF DOMAIN event_args \cap DOMAIN callback_args.kwargs # {}
            THEN [calls |-> done, error |-> DuplicateKeyword,
                  observers |-> observers]
            ELSE IF Expired(callback)
            THEN [calls |-> done, error |-> NoneNotCallable,
                  observers |-> observers]
            ELSE LET call == [obj |-> callback.obj, func |-> callback.func,
                              kwargs |-> Merge(event_args, callback_args.kwargs),
                              raised |-> callback.obj = by
                                         /\ ~Contains(observers, target)]
                 IN IF callback.obj # by
                    THEN NotifyLoopRemoving(observers, i + 1, event_args, by,
                                            target, Append(done, call))
                    ELSE IF call.raised
                    THEN [calls |-> Append(done, call),
                          error |-> UnknownCallbackID, observers |-> observers]
                    ELSE [calls |-> Append(done, call),
                          error |-> DictChangedSize,
                          observers |-> DelItem(observers, target)]

\* Observable.notify(event, **event_args) with an observer by, registered for
\* the event, whose callback calls remove_observer(event, target) on the
\* same observable; the callback holds a reference to the target.
notify_removing(event, event_args, by, target) ==
    /\ event \in DOMAIN observer_lists
    /\ Contains(observer_lists[event], by)
    /\ target = by \/ held[target]
    /\ LET outcome == NotifyLoopRemoving(observer_lists[event], 1, event_args,
                                         by, target, <<>>)
       IN /\ observer_lists' =
                 [observer_lists EXCEPT ![event] = outcome.observers]
          /\ calls' = outcome.calls
          /\ error' = outcome.error
    /\ last' = [op |-> "notify_removing", event |-> event, id |-> target,
                func |-> None, kwargs |-> event_args, by |-> by]
    /\ UNCHANGED <<alive, held, func_alive>>

\* The caller drops its last strong reference to an observing object.
release(owner) ==
    /\ held[owner]
    /\ held' = [held EXCEPT ![owner] = FALSE]
    /\ last' = NoCall
    /\ calls' = <<>>
    /\ error' = NoError
    /\ UNCHANGED <<observer_lists, alive, func_alive>>

\* The WeakKeyDictionary holds its values, and with them the kwargs of every
\* registration, strongly: an object referenced from stored kwargs is
\* reachable from the Observable.
Pinned(owner) ==
    \E e \in DOMAIN observer_lists : \E i \in 1..Len(observer_lists[e]) :
        owner \in Refs(observer_lists[e][i].kwargs)

Reachable(owner) == held[owner] \/ Pinned(owner)

\* Faulty variant of collect: the observer lists key their registrations
\* strongly (a plain dict of weak references), so a collected owner's
\* registration stays.
collect_keeps(owner) ==
    /\ alive[owner] /\ ~held[owner]
    /\ alive' = [alive EXCEPT ![owner] = FALSE]
    /\ last' = NoCall
    /\ calls' = <<>>
    /\ error' = NoError
    /\ UNCHANGED <<observer_lists, held, func_alive>>

\* An unreachable observing object is collected; the WeakKeyDictionary's
\* weakref callback removes its key from every observer list.
collect(owner) ==
    /\ alive[owner] /\ ~Reachable(owner)
    /\ alive' = [alive EXCEPT ![owner] = FALSE]
    /\ observer_lists' =
           [e \in DOMAIN observer_lists |-> DelItem(observer_lists[e], owner)]
    /\ last' = NoCall
    /\ calls' = <<>>
    /\ error' = NoError
    /\ UNCHANGED <<held, func_alive>>

\* The function object of a callback is collected (the bound method passed
\* to add_observer was its only holder, or the class attribute was replaced).
expire(func) ==
    /\ func \in Dynamic /\ func_alive[func]
    /\ func_alive' = [func_alive EXCEPT ![func] = FALSE]
    /\ last' = NoCall
    /\ calls' = <<>>
    /\ error' = NoError
    /\ UNCHANGED <<observer_lists, alive, held>>

\* The behaviours of the callbacks during one notify of event: none raises,
\* or the callback of one of the owners registered for the event does.
Raisers(event) ==
    {None} \cup
    IF event \in DOMAIN observer_lists
    THEN {observer_lists[event][i].key : i \in 1..Len(observer_lists[event])}
    ELSE {}

Next ==
    \/ \E event \in Events, owner \in Owners, func \in Funcs :
       \E kwargs \in KwMaps(KwKeys, DataVals \cup {owner}) :
           add_observer(event, owner, func, kwargs)
    \/ \E event \in Events, callback_id \in Ids :
           remove_observer(event, callback_id)
    \/ \E event \in Events, event_args \in KwMaps(ArgKeys, DataVals) :
       \E raiser \in Raisers(event) :
           notify(event, event_args, raiser)
    \/ \E event \in Events, by \in Owners :
       \E target \in Owners \ {by} :
           notify_removing(event, <<>>, by, target)
    \/ \E owner \in Owners : release(owner)
    \/ \E owner \in Owners : collect(owner)
    \/ \E func \in Funcs : expire(func)

Spec == Init /\ [][Next]_vars

(***************************************************************************)
(* Vocabulary of the properties.  These operators read the state directly  *)
(* and use none of the operators that model the code.                      *)
(***************************************************************************)

\* The registrations of event: the empty sequence for an event without list.
RegsOf(lists, event) == IF event \in DOMAIN lists THEN lists[event] ELSE <<>>

\* The positions at which owner is registered for event.
RegIdx(lists, event, owner) ==
    {i \in 1..Len(RegsOf(lists, event)) : RegsOf(lists, event)[i].key = owner}

IsRegistered(lists, event, owner) == RegIdx(lists, event, owner) # {}

\* The positions of the calls made to callbacks of owner.
CallIdx(cs, owner) == {i \in 1..Len(cs) : cs[i].obj = owner}

\* The union of two keyword dicts, as a set of <<key, value>> pairs.
Pairs(d) == {<<k, d[k]>> : k \in DOMAIN d}

\* The call delivers registration reg of event_args: same object, same
\* function, and exactly the keywords of event_args and of reg.kwargs.
Delivers(call, reg, event_args) ==
    /\ call.obj = reg.key
    /\ call.func = reg.callback.func
    /\ Pairs(call.kwargs) = Pairs(event_args) \cup Pairs(reg.kwargs)

\* The registration's weak callback reference still resolves.
IsLive(reg) == alive[reg.key] /\ func_alive[reg.callback.func]

\* The step is a call of op: every call of the Observable sets last, and
\* every other step resets it.
Called(op) == last' # NoCall /\ last'.op = op

\* The premise of C1 for a step: it is a notify that follows an add_observer
\* for the same event, neither that registration's kwargs nor another one's
\* share a key with the event_args, and no callback of another owner raised.
AddThenNotify ==
    /\ last.op = "add_observer"
    /\ Called("notify") /\ last'.event = last.event
    /\ \A i \in 1..Len(observer_lists[last.event]) :
           DOMAIN observer_lists[last.event][i].kwargs \cap DOMAIN last'.kwargs = {}
    /\ \A j \in 1..Len(calls') : calls'[j].raised => calls'[j].obj = last.id

\* The callback registered by the add_observer was invoked exactly once in
\* the notify step, with the union of event_args and its kwargs.
DeliveredOnce ==
    /\ Cardinality(CallIdx(calls', last.id)) = 1
    /\ \A j \in CallIdx(calls', last.id) :
           Delivers(calls'[j], CallbackArgs(last.id, last.func, last.kwargs),
                    last'.kwargs)

\* C1: when add_observer(event, cb, **kw) is followed immediately by
\* notify(event, **args), args and kw share no key, the owner stays reachable
\* and no other callback raises, cb is invoked exactly once during that
\* notify and its keyword arguments are exactly the union of args and kw.
C1Claim == [][AddThenNotify => DeliveredOnce]_vars

\* No observer list holds two registrations of one owner.
OneRegistrationPerOwner ==
    \A event \in DOMAIN observer_lists, owner \in Owners :
        Cardinality(RegIdx(observer_lists, event, owner)) <= 1

\* After add_observer(event, owner.func, **kwargs) the owner's registration
\* for event is this callback with these kwargs.
AddReplaces ==
    last.op = "add_observer" =>
        /\ IsRegistered(observer_lists, last.event, last.id)
        /\ \A i \in RegIdx(observer_lists, last.event, last.id) :
               /\ observer_lists[last.event][i].callback =
                      [obj |-> last.id, func |-> last.func]
               /\ observer_lists[last.event][i].kwargs = last.kwargs

\* Every call made by a notify delivers the registration that the event
\* holds for the called owner, and no owner is called twice.
NotifyCallsRegistered ==
    last.op = "notify" =>
        \A j \in 1..Len(calls) :
            /\ CallIdx(calls, calls[j].obj) = {j}
            /\ IsRegistered(observer_lists, last.event, calls[j].obj)
            /\ \A i \in RegIdx(observer_lists, last.event, calls[j].obj) :
                   Delivers(calls[j], observer_lists[last.event][i], last.kwargs)

\* C2: an owner holds at most one registration per event; a second
\* add_observer for the same owner and event replaces callback and kwargs,
\* and a later notify of the event invokes for that owner only the
\* registration made last.
C2Theorem ==
    /\ OneRegistrationPerOwner
    /\ AddReplaces
    /\ NotifyCallsRegistered

\* Owner a, registered for tick with on_tick and then with on_tock(phase=1),
\* has just been notified: one registration, one call, of the second callback.
C2Witness ==
    /\ last.op = "notify" /\ last.event = "tick" /\ error = NoError
    /\ Len(observer_lists["tick"]) = 1
    /\ Len(calls) = 1
    /\ calls[1].obj = "a" /\ calls[1].func = "on_tock"
    /\ "phase" \in DOMAIN calls[1].kwargs /\ "count" \in DOMAIN calls[1].kwargs

\* A remove_observer with the id of a registered owner raises nothing.
RemoveRegistered ==
    (Called("remove_observer")
     /\ \E i \in 1..Len(RegsOf(observer_lists, last'.event)) :
            observer_lists[last'.event][i].key = last'.id) =>
        error' = NoError

\* A remove_observer that raised nothing leaves its id unregistered for the
\* event.
RemovedIsGone ==
    (last.op = "remove_observer" /\ error = NoError) =>
        ~IsRegistered(observer_lists, last.event, last.id)

\* No step but an add_observer adds a registration, and an add_observer
\* adds none but its owner's, for its event.
OnlyAddRegisters ==
    observer_lists' # observer_lists =>
        \A event \in DOMAIN observer_lists' :
        \A i \in 1..Len(observer_lists'[event]) :
            \/ \E k \in 1..Len(RegsOf(observer_lists, event)) :
                   observer_lists[event][k].key = observer_lists'[event][i].key
            \/ /\ Called("add_observer")
               /\ last'.event = event
               /\ last'.id = observer_lists'[event][i].key

\* A notify calls no callback of an owner that is not registered for the event.
NotifySkipsUnregistered ==
    last.op = "notify" =>
        \A j \in 1..Len(calls) :
            IsRegistered(observer_lists, last.event, calls[j].obj)

\* C3: the callback_id returned by add_observer removes the registration:
\* while it is registered, remove_observer(event, id) raises nothing, and
\* from then on no notify of the event invokes the owner's callback until
\* the owner registers again.
C3Theorem ==
    /\ [](RemovedIsGone /\ NotifySkipsUnregistered)
    /\ [][RemoveRegistered /\ OnlyAddRegisters]_vars

\* Owner b has just been removed from an event for which a stays registered.
C3Witness ==
    /\ last.op = "remove_observer" /\ last.id = "b" /\ error = NoError
    /\ ~IsRegistered(observer_lists, last.event, "b")
    /\ IsRegistered(observer_lists, last.event, "a")

\* C4: remove_observer(event, id) raises the unknown-callback error whenever
\* id has no registration for the event (never registered, already removed);
\* it is never silently ignored.
C4Theorem ==
    [][(Called("remove_observer")
        /\ ~IsRegistered(observer_lists, last'.event, last'.id)) =>
           error' = UnknownCallbackID]_vars

\* A remove_observer with the id of owner a has just failed on an event for
\* which only b is registered.
C4Witness ==
    /\ last.op = "remove_observer" /\ last.id = "a"
    /\ error = UnknownCallbackID
    /\ IsRegistered(observer_lists, last.event, "b")

\* C5: once the owner of a registered callback has been collected, no notify
\* invokes that callback and no observer list holds its registration.
C5Theorem ==
    \A owner \in Owners :
        ~alive[owner] =>
            /\ \A event \in DOMAIN observer_lists :
                   ~IsRegistered(observer_lists, event, owner)
            /\ CallIdx(calls, owner) = {}

\* Owner a has been collected and a notify has just called b alone.
C5Witness ==
    /\ ~alive["a"]
    /\ last.op = "notify" /\ error = NoError
    /\ Len(calls) = 1 /\ calls[1].obj = "b"

\* Every call of a notify is a call of a callback registered for the
\* notified event.
NotifyStaysInEvent ==
    last.op = "notify" =>
        \A j \in 1..Len(calls) :
            \E i \in 1..Len(observer_lists[last.event]) :
                /\ observer_lists[last.event][i].key = calls[j].obj
                /\ observer_lists[last.event][i].callback.func = calls[j].func

\* add_observer and remove_observer leave the registrations of every other
\* event as they were.
OtherEventsUnchanged ==
    (Called("add_observer") \/ Called("remove_observer")) =>
        \A event \in Events \ {last'.event} :
            RegsOf(observer_lists', event) = RegsOf(observer_lists, event)

\* C6: distinct events have independent observer sets: notify(B) never
\* invokes a callback registered only for A, and add_observer and
\* remove_observer on A never change the registrations of B.
C6Theorem == []NotifyStaysInEvent /\ [][OtherEventsUnchanged]_vars

\* A notify of tock has just called nothing while a is registered for tick
\* with a live callback.
C6Witness ==
    /\ last.op = "notify" /\ last.event = "tock"
    /\ calls = <<>> /\ error = NoError
    /\ IsRegistered(observer_lists, "tick", "a")
    /\ \A i \in RegIdx(observer_lists, "tick", "a") : IsLive(observer_lists["tick"][i])

\* C7: notify of an event without registrations invokes no callback and
\* raises no error.
C7Theorem ==
    (last.op = "notify" /\ RegsOf(observer_lists, last.event) = <<>>) =>
        calls = <<>> /\ error = NoError

\* A notify of an event without registrations has just returned, while the
\* other event holds one.
C7Witness ==
    /\ last.op = "notify"
    /\ RegsOf(observer_lists, last.event) = <<>>
    /\ calls = <<>> /\ error = NoError
    /\ \E event \in DOMAIN observer_lists : observer_lists[event] # <<>>

\* The exception of a callback ends the notify: it is the error of the call
\* and the raising call is the last one made.
RaisedAborts ==
    last.op = "notify" =>
        /\ \A j \in 1..Len(calls) :
               calls[j].raised => j = Len(calls) /\ error = CallbackException
        /\ error = CallbackException => calls # <<>> /\ calls[Len(calls)].raised

\* A notify that ends with the exception of a callback leaves every
\* registration as it was.
RaisedKeepsRegistrations ==
    (Called("notify") /\ error' = CallbackException) =>
        \A event \in Events :
            RegsOf(observer_lists', event) = RegsOf(observer_lists, event)

\* C8: an exception raised by a callback during notify propagates unmodified
\* to the caller, no further observer is invoked in that call, and the
\* registrations are left unchanged.
C8Theorem == []RaisedAborts /\ [][RaisedKeepsRegistrations]_vars

\* The first of two registered callbacks has just raised: one call was
\* made, the second observer was not invoked.
C8Witness ==
    /\ last.op = "notify" /\ error = CallbackException
    /\ Len(observer_lists[last.event]) = 2
    /\ Len(calls) = 1 /\ calls[1].raised

\* C9: holding a registration never extends a lifetime: an owner without a
\* strong reference outside the observer lists can be collected, whatever
\* its kwargs reference.
C9Claim ==
    \A owner \in Owners :
        (alive[owner] /\ ~held[owner]) => ENABLED collect(owner)

\* C10: a registration whose weak callback reference has expired while its
\* entry is still in the list is skipped by notify without error, and the
\* live observers are still notified.
C10Claim ==
    (last.op = "notify"
     /\ \E i \in 1..Len(observer_lists[last.event]) :
            ~IsLive(observer_lists[last.event][i])) =>
        /\ error # NoneNotCallable
        /\ \A i \in 1..Len(observer_lists[last.event]) :
               LET reg == observer_lists[last.event][i]
               IN IF IsLive(reg)
                  THEN error = NoError => Cardinality(CallIdx(calls, reg.key)) = 1
                  ELSE CallIdx(calls, reg.key) = {}

\* The registration's kwargs share a key with the event_args of the last call.
Conflicts(reg) == DOMAIN reg.kwargs \cap DOMAIN last.kwargs # {}

\* C11: a key that is both in the kwargs of a registration and in the
\* event_args of notify has one outcome, whatever the values, the other
\* observers or the state of the callback: the callback is not invoked, the
\* notify raises, and when the loop reaches the registration (every earlier
\* observer was called and returned) the error is the duplicate-keyword
\* TypeError; no notify without such a key raises that error.
C11Theorem ==
    last.op = "notify" =>
        /\ \A i \in 1..Len(observer_lists[last.event]) :
               Conflicts(observer_lists[last.event][i]) =>
                   /\ CallIdx(calls, observer_lists[last.event][i].key) = {}
                   /\ error # NoError
                   /\ (/\ Len(calls) = i - 1
                       /\ \A j \in 1..Len(calls) : ~calls[j].raised)
                          => error = DuplicateKeyword
        /\ error = DuplicateKeyword =>
               \E i \in 1..Len(observer_lists[last.event]) :
                   Conflicts(observer_lists[last.event][i])

\* A notify(phase=..) has just called the first observer and raised the
\* duplicate-keyword error at the second, registered with phase=...
C11Witness ==
    /\ last.op = "notify" /\ error = DuplicateKeyword
    /\ Len(observer_lists[last.event]) = 2
    /\ Len(calls) = 1
    /\ Conflicts(observer_lists[last.event][2])

\* C12: remove_observer on an event the Observable has never seen raises
\* the same unknown-callback error as an unknown id on a known event.
C12Theorem ==
    [][(Called("remove_observer") /\ last'.event \notin DOMAIN observer_lists)
          => error' = UnknownCallbackID]_vars

\* A remove_observer has just failed on tock, which has an empty list, while
\* owner a is registered for tick.
C12Witness ==
    /\ last.op = "remove_observer" /\ last.event = "tock" /\ last.id = "a"
    /\ error = UnknownCallbackID
    /\ observer_lists["tock"] = <<>>
    /\ IsRegistered(observer_lists, "tick", "a")

\* Every event that has a list keeps it, and the event of a call of the
\* Observable has a list after the call.
ListsOnlyGrow ==
    /\ DOMAIN observer_lists \subseteq DOMAIN observer_lists'
    /\ last' # NoCall => last'.event \in DOMAIN observer_lists'

\* Looking an event up does not replace its list: the registrations made
\* earlier by other owners are still there after a call for the event.
LookupKeepsList ==
    last' # NoCall =>
        \A i \in 1..Len(RegsOf(observer_lists, last'.event)) :
            observer_lists[last'.event][i].key # last'.id =>
                \E k \in 1..Len(observer_lists'[last'.event]) :
                    observer_lists'[last'.event][k] = observer_lists[last'.event][i]

\* C13: the event-to-ObserverList mapping only grows: a list is created the
\* first time add_observer, remove_observer or notify uses an event, later
\* calls find the same list with the registrations made earlier, and no
\* step removes or replaces a list.
C13Theorem == [][ListsOnlyGrow /\ LookupKeepsList]_vars

\* A notify of tock has just created its empty list beside the list of tick,
\* which holds a registration.
C13Witness ==
    /\ last.op = "notify"
    /\ DOMAIN observer_lists = {"tick", "tock"}
    /\ observer_lists["tock"] = <<>>
    /\ Len(observer_lists["tick"]) = 1

\* A notify leaves the registrations of every event as they were.
NotifyKeepsRegistrations ==
    Called("notify") =>
        \A event \in Events :
            RegsOf(observer_lists', event) = RegsOf(observer_lists, event)

\* An owner registered for an event before a step and not after it was
\* removed by remove_observer with its id for that event, or was collected.
OnlyRemoveOrCollectUnregisters ==
    observer_lists' # observer_lists =>
        \A event \in DOMAIN observer_lists :
        \A i \in 1..Len(observer_lists[event]) :
            \/ \E k \in 1..Len(observer_lists'[event]) :
                   observer_lists'[event][k].key = observer_lists[event][i].key
            \/ ~alive'[observer_lists[event][i].key]
            \/ /\ last' # NoCall
               /\ last'.op \in {"remove_observer", "notify_removing"}
               /\ last'.event = event
               /\ last'.id = observer_lists[event][i].key

\* C14: notify never changes the set of registrations, whether it returns
\* normally or raises, as long as no callback mutates the list;
\* registrations disappear only through remove_observer or owner collection.
C14Theorem == [][NotifyKeepsRegistrations /\ OnlyRemoveOrCollectUnregisters]_vars

\* A notify has just raised at an expired registration, which is still in
\* the list.
C14Witness ==
    /\ last.op = "notify" /\ error = NoneNotCallable
    /\ \E i \in 1..Len(observer_lists[last.event]) :
           ~IsLive(observer_lists[last.event][i])

\* The registrations of an event that belong to other objects than id.
OthersThan(observers, id) == SelectSeq(observers, LAMBDA reg : reg.key # id)

C16Theorem ==
    [][(Called("remove_observer") /\ error' = UnknownCallbackID) =>
          /\ \A event \in Events :
                 RegsOf(observer_lists', event) = RegsOf(observer_lists, event)
          /\ DOMAIN observer_lists' = DOMAIN observer_lists \cup {last'.event}]_vars

\* A remove_observer with an id that is no observer has just failed on an
\* event that holds two registrations.
C16Witness ==
    /\ last.op = "remove_observer" /\ last.id = NotWeakrefable
    /\ error = UnknownCallbackID
    /\ Len(observer_lists[last.event]) = 2

\* C17: when a callback invoked during a notify removes a registration with
\* remove_observer, the removed callback is not invoked in the rest of that
\* notify, and no registration is invoked more than once in one notify.
C17Theorem ==
    last.op = "notify_removing" =>
        /\ \A r \in CallIdx(calls, last.by) :
           \A j \in 1..Len(calls) : j > r => calls[j].obj # last.id
        /\ \A j, k \in 1..Len(calls) : calls[j].obj = calls[k].obj => j = k

\* The callback of a, the first observer, has removed the registration of b
\* during a notify: b, not yet called, was not called and is registered no
\* more.
C17Witness ==
    /\ last.op = "notify_removing" /\ last.by = "a" /\ last.id = "b"
    /\ error = DictChangedSize
    /\ Len(calls) = 1 /\ calls[1].obj = "a"
    /\ ~IsRegistered(observer_lists, last.event, "b")
    /\ IsRegistered(observer_lists, last.event, "a")
====
